---- MODULE Spec2Model ----
(***************************************************************************)
(* State machine of the browser shell in src/browser/src/lib.rs: the       *)
(* BrowserState aggregate, the ephemeral fields of App, the persisted       *)
(* snapshot in LocalStorage and App::update, one action per Msg variant.    *)
(*                                                                          *)
(* Strings are sequences of one-character strings, so that trim,            *)
(* starts_with, contains, replace and split are computed character by       *)
(* character.  Option<T> is a sequence of length 0 (None) or 1 (Some).      *)
(* Vec indices are 1-based here and 0-based in the source.                  *)
(***************************************************************************)
EXTENDS Integers, Sequences, FiniteSets, TLC

\* ------------------------------------------------------------------ bounds

\* Number of values of the tab-id type: u32 scaled down from 2^32, so that the
\* counter's last value is reached; larger than MaxTabs, so that MaxTabs tabs
\* are open before the counter overflows.
IdModulus == 4
\* NewTab is not dispatched when this many tabs are open.
MaxTabs == 3
\* The store rejects at most this many writes in one run.
MaxFailedWrites == 1
\* Longest text, after its scheme prefix, handed to process_url.
MaxLen == 3

U32Max == IdModulus - 1
U32 == 0..U32Max

\* ----------------------------------------------------------------- strings

None == <<>>
Some(x) == <<x>>

EmptyStr == <<>>
HttpPrefix == <<"h","t","t","p",":","/","/">>
HttpsPrefix == <<"h","t","t","p","s",":","/","/">>
GraphitePrefix == <<"g","r","a","p","h","i","t","e",":","/","/">>
HomeUrl == GraphitePrefix \o <<"h","o","m","e">>
HomeTitle == <<"H","o","m","e">>
NewTabTitle == <<"N","e","w"," ","T","a","b">>
RustLangOrg == <<"r","u","s","t","-","l","a","n","g",".","o","r","g">>
FooBar == <<"f","o","o"," ","b","a","r">>
ExampleCom == <<"e","x","a","m","p","l","e",".","c","o","m">>
XCom == <<"x",".","c","o","m">>

\* char::is_whitespace, on the characters of the model's alphabet
Whitespace == {" ", "\t", "\n"}

StartsWith(s, p) ==
  /\ Len(s) >= Len(p)
  /\ SubSeq(s, 1, Len(p)) = p

Contains(s, c) == \E i \in 1..Len(s) : s[i] = c

RECURSIVE TrimStart(_)
TrimStart(s) ==
  IF s # <<>> /\ Head(s) \in Whitespace THEN TrimStart(Tail(s)) ELSE s

RECURSIVE TrimEnd(_)
TrimEnd(s) ==
  IF s # <<>> /\ s[Len(s)] \in Whitespace
    THEN TrimEnd(SubSeq(s, 1, Len(s) - 1))
    ELSE s

\* str::trim
Trim(s) == TrimEnd(TrimStart(s))

\* str::replace(pat, ""): every non-overlapping match, left to right
RECURSIVE RemoveAll(_, _)
RemoveAll(s, pat) ==
  IF Len(s) < Len(pat) THEN s
  ELSE IF StartsWith(s, pat) THEN RemoveAll(SubSeq(s, Len(pat) + 1, Len(s)), pat)
  ELSE <<Head(s)>> \o RemoveAll(Tail(s), pat)

\* str::split('/').next(): the text before the first '/', Some even when empty
RECURSIVE BeforeSlash(_)
BeforeSlash(s) ==
  IF s = <<>> \/ Head(s) = "/" THEN <<>>
  ELSE <<Head(s)>> \o BeforeSlash(Tail(s))

SplitNext(s) == Some(BeforeSlash(s))

UnwrapOr(opt, dflt) == IF opt = None THEN dflt ELSE opt[1]

\* ----------------------------------------------------------- search engine

AllEngines == {"Yahoo", "Google", "Bing", "DuckDuckGo", "Brave"}

Letters == {"a","b","c","d","e","f","g","h","i","j","k","l","m","n","o","p","q",
            "r","s","t","u","v","w","x","y","z","H","N","T"}
\* characters encodeURIComponent leaves alone
Unreserved == Letters \cup {"-", "_", ".", "!", "~", "*", "'", "(", ")"}

\* percent-encoding of one character (UTF-8 byte in upper-case hex)
EncodeChar(c) ==
  IF c \in Unreserved THEN <<c>>
  ELSE CASE c = " "  -> <<"%","2","0">>
         [] c = "\t" -> <<"%","0","9">>
         [] c = "\n" -> <<"%","0","A">>
         [] c = "/"  -> <<"%","2","F">>
         [] c = ":"  -> <<"%","3","A">>
         [] c = "?"  -> <<"%","3","F">>
         [] c = "="  -> <<"%","3","D">>
         [] c = "%"  -> <<"%","2","5">>

\* js_sys::encode_uri_component
RECURSIVE encode_uri_component(_)
encode_uri_component(s) ==
  IF s = <<>> THEN <<>>
  ELSE EncodeChar(Head(s)) \o encode_uri_component(Tail(s))

SearchTemplate(engine) ==
  CASE engine = "Yahoo" ->
         HttpsPrefix \o <<"s","e","a","r","c","h",".","y","a","h","o","o",".","c","o","m",
                          "/","s","e","a","r","c","h","?","p","=">>
    [] engine = "Google" ->
         HttpsPrefix \o <<"w","w","w",".","g","o","o","g","l","e",".","c","o","m",
                          "/","s","e","a","r","c","h","?","q","=">>
    [] engine = "Bing" ->
         HttpsPrefix \o <<"w","w","w",".","b","i","n","g",".","c","o","m",
                          "/","s","e","a","r","c","h","?","q","=">>
    [] engine = "DuckDuckGo" ->
         HttpsPrefix \o <<"d","u","c","k","d","u","c","k","g","o",".","c","o","m",
                          "/","?","q","=">>
    [] engine = "Brave" ->
         HttpsPrefix \o <<"s","e","a","r","c","h",".","b","r","a","v","e",".","c","o","m",
                          "/","s","e","a","r","c","h","?","q","=">>

get_search_url(engine, query) == SearchTemplate(engine) \o encode_uri_component(query)

\* ------------------------------------------------------------ URL resolver

process_url(engine, raw) ==
  LET input == Trim(raw) IN
  IF StartsWith(input, HttpPrefix) \/ StartsWith(input, HttpsPrefix)
       \/ StartsWith(input, GraphitePrefix)
    THEN input
  ELSE IF Contains(input, ".") /\ ~Contains(input, " ")
    THEN HttpsPrefix \o input
  ELSE get_search_url(engine, input)

get_title_from_url(url) ==
  IF StartsWith(url, GraphitePrefix) THEN HomeTitle
  ELSE UnwrapOr(SplitNext(RemoveAll(RemoveAll(url, HttpsPrefix), HttpPrefix)),
                NewTabTitle)

\* ------------------------------------------------------------- data model

Tab(id, title, url, favicon, is_loading) ==
  [id |-> id, title |-> title, url |-> url, favicon |-> favicon,
   is_loading |-> is_loading]

DefaultTab == Tab(0, HomeTitle, HomeUrl, None, FALSE)

Download(id, filename, completed) ==
  [id |-> id, filename |-> filename, completed |-> completed]

DefaultSearchEngine == "Google"

\* mutant: the default state has no seed downloads
DefaultBrowserStateNoSeeds ==
  [tabs |-> <<DefaultTab>>,
   active_tab_id |-> 0,
   next_tab_id |-> 1,
   search_engine |-> DefaultSearchEngine,
   proxy_server |-> EmptyStr,
   downloads |-> <<>>,
   history |-> <<>>,
   history_index |-> 0]

DefaultBrowserState ==
  [tabs |-> <<DefaultTab>>,
   active_tab_id |-> 0,
   next_tab_id |-> 1,
   search_engine |-> DefaultSearchEngine,
   proxy_server |-> EmptyStr,
   downloads |-> <<Download(0, "google.png", TRUE),
                   Download(1, "graphiteiscool.txt", TRUE),
                   Download(2, "vscode.exe", TRUE)>>,
   history |-> <<>>,
   history_index |-> 0]

BrowserStateFields ==
  {"tabs", "active_tab_id", "next_tab_id", "search_engine", "proxy_server",
   "downloads", "history", "history_index"}

\* ------------------------------------------------------------ Vec helpers

\* Iterator::position, 1-based; 0 stands for None
RECURSIVE PositionFrom(_, _, _)
PositionFrom(tabs, id, i) ==
  IF i > Len(tabs) THEN 0
  ELSE IF tabs[i].id = id THEN i
  ELSE PositionFrom(tabs, id, i + 1)

Position(tabs, id) == PositionFrom(tabs, id, 1)

\* mutant: the last element is removed, whatever the index
RemoveLast(v, i) == SubSeq(v, 1, Len(v) - 1)

\* Vec::remove
RemoveAt(v, i) == SubSeq(v, 1, i - 1) \o SubSeq(v, i + 1, Len(v))

\* Vec::insert
InsertAt(v, i, x) == SubSeq(v, 1, i - 1) \o <<x>> \o SubSeq(v, i, Len(v))

\* Vec::retain(|d| d.id != id)
RetainOtherIds(v, id) == SelectSeq(v, LAMBDA d : d.id # id)

Min(a, b) == IF a < b THEN a ELSE b

\* usize::saturating_sub(1)
SaturatingSub1(n) == IF n = 0 THEN 0 ELSE n - 1

\* mutant: the home URL is shown as it is
UrlBarTextLiteral(url) == url

\* the text the URL bar shows for a tab's url
UrlBarText(url) == IF url = HomeUrl THEN EmptyStr ELSE url

\* ------------------------------------------------------------ persistence

JsonNull == [json |-> "null"]

\* mutant: is_loading is left out of the snapshot and reads back as false
SerializeTabSkipsLoading(t) ==
  [id |-> t.id, title |-> t.title, url |-> t.url,
   favicon |-> IF t.favicon = None THEN JsonNull ELSE t.favicon[1],
   is_loading |-> FALSE]

SerializeTab(t) ==
  [id |-> t.id, title |-> t.title, url |-> t.url,
   favicon |-> IF t.favicon = None THEN JsonNull ELSE t.favicon[1],
   is_loading |-> t.is_loading]

DeserializeTab(j) ==
  Tab(j.id, j.title, j.url,
      IF j.favicon = JsonNull THEN None ELSE Some(j.favicon),
      j.is_loading)

\* serde_json of BrowserState, as LocalStorage::set writes it
Serialize(s) ==
  [tabs |-> [i \in 1..Len(s.tabs) |-> SerializeTab(s.tabs[i])],
   active_tab_id |-> s.active_tab_id,
   next_tab_id |-> s.next_tab_id,
   search_engine |-> s.search_engine,
   proxy_server |-> s.proxy_server,
   downloads |-> s.downloads,
   history |-> s.history,
   history_index |-> s.history_index]

\* a stored text that is no BrowserState
CorruptJson == [garbage |-> TRUE]

\* LocalStorage::get::<BrowserState>: Some(state), or None for Err
Deserialize(item) ==
  IF item = None THEN None
  ELSE IF DOMAIN item[1] # BrowserStateFields THEN None
  ELSE LET j == item[1] IN
       Some([tabs |-> [i \in 1..Len(j.tabs) |-> DeserializeTab(j.tabs[i])],
             active_tab_id |-> j.active_tab_id,
             next_tab_id |-> j.next_tab_id,
             search_engine |-> j.search_engine,
             proxy_server |-> j.proxy_server,
             downloads |-> j.downloads,
             history |-> j.history,
             history_index |-> j.history_index])

\* .unwrap_or_default()
LoadState(item) == UnwrapOr(Deserialize(item), DefaultBrowserState)

\* ------------------------------------------------------------------ state

VARIABLES
  state,            \* App::state, the BrowserState
  url_input,        \* App::url_input
  show_settings,    \* App::show_settings
  show_downloads,   \* App::show_downloads
  dragging_tab,     \* App::dragging_tab, Option<u32>
  stored,           \* LocalStorage item "graphite_state", Option<json>
  overflow_checks,  \* build profile, Option<bool>: Some(TRUE) when u32 overflow
                    \* panics, None as long as no overflow has shown which it is
  panicked,         \* update() panicked; the component handles no more messages
  write_faults,     \* number of LocalStorage::set calls the store will still reject
  wrote,            \* what the last step did to the store: "ok" for a write the
                    \* store accepted, "failed" for one it rejected, "none"
  last,             \* the message handled by the last step, what it met and
                    \* what update() returned
  scen,             \* how far the run so far follows NewTab, Navigate, CloseTab(1)
  call              \* last call of a resolver function: its input and output

vars == <<state, url_input, show_settings, show_downloads, dragging_tab, stored,
          overflow_checks, panicked, write_faults, wrote, last, scen, call>>

\* what a panic and the build profile decide
build == <<panicked, overflow_checks>>

NoCall == [fn |-> "none", engine |-> DefaultSearchEngine, input |-> EmptyStr,
           output |-> EmptyStr]

NoMsg == [msg |-> "create", id |-> None, idx |-> 0, len |-> 0, was_active |-> FALSE,
          panel |-> "none", redraw |-> TRUE, text |-> EmptyStr]

OpenPanel ==
  IF show_settings THEN "settings" ELSE IF show_downloads THEN "downloads" ELSE "none"

\* the bool update() returns for msg: whether the view is rendered again
ShouldRender(msg) == msg # "NoOp"

\* what the step that handles msg (carrying a tab or download id, if any) meets:
\* the position of that tab or download (0: absent), the number of tabs, whether
\* that tab is the active one, and the panel that is open; what it returns; and
\* the text it carries, which Handles fills in
Met(msg, id) ==
  [msg |-> msg, id |-> id,
   idx |-> IF id = None THEN 0
           ELSE IF msg = "DeleteDownload" THEN Position(state.downloads, id[1])
           ELSE Position(state.tabs, id[1]),
   len |-> Len(state.tabs),
   was_active |-> id # None /\ state.active_tab_id = id[1],
   panel |-> OpenPanel,
   redraw |-> ShouldRender(msg),
   text |-> EmptyStr]

ActiveTab(s) ==
  LET i == Position(s.tabs, s.active_tab_id) IN
  IF i = 0 THEN None ELSE Some(s.tabs[i])

\* App::create
Create(item) ==
  /\ state = LoadState(item)
  /\ url_input = (IF ActiveTab(state) = None THEN EmptyStr
                  ELSE UrlBarText(ActiveTab(state)[1].url))
  /\ show_settings = FALSE
  /\ show_downloads = FALSE
  /\ dragging_tab = None

\* the component is created over a store with nothing usable under the key; the
\* store will reject `faults` writes
Started(faults) ==
  /\ stored \in {None, Some(CorruptJson)}
  /\ Create(stored)
  /\ overflow_checks = None
  /\ panicked = FALSE
  /\ write_faults = faults
  /\ wrote = "none"
  /\ last = NoMsg
  /\ scen = 0
  /\ call = NoCall

Init == Started(MaxFailedWrites)

\* a store that accepts every write
InitReliable == Started(0)

\* ----------------------------------------------------------- message inputs

\* tab ids carried by CloseTab, SelectTab, DragStart, DragOver: every u32
TabIdArgs == U32
\* texts submitted from the URL bar
NavInputs == {RustLangOrg}
\* texts typed into the URL bar
UrlBarInputs == {<<"r">>}
EngineInputs == {"Google", "Bing"}
ProxyInputs == {<<"p">>}
\* download ids carried by DeleteDownload / OpenDownloadFolder: a seeded one
\* and one no download has
DownloadIdArgs == {1, 7}

\* --------------------------------------------------------------- bookkeeping

\* position in the scenario NewTab, Navigate("rust-lang.org"), CloseTab(1)
\* dispatched from the state after create; -1 once the run has left it
ScenStep(msg, arg) ==
  IF scen = 0 /\ msg = "NewTab" THEN 1
  ELSE IF scen = 1 /\ msg = "Navigate" /\ arg = RustLangOrg THEN 2
  ELSE IF scen = 2 /\ msg = "CloseTab" /\ arg = 1 THEN 3
  ELSE -1

\* update() is entered with msg; id is the tab id it carries, if any
Handles(msg, id, arg) ==
  /\ ~panicked
  /\ last' = [Met(msg, id) EXCEPT
                !.text = IF msg \in {"Navigate", "UpdateUrlBar", "SetProxyServer"}
                           THEN arg ELSE EmptyStr]
  /\ scen' = ScenStep(msg, arg)
  /\ UNCHANGED call

\* mutant: a rejected write leaves the key without a value
save_state_clears ==
  \E ok \in BOOLEAN :
    /\ ok \/ write_faults > 0
    /\ stored' = IF ok THEN Some(Serialize(state')) ELSE None
    /\ write_faults' = IF ok THEN write_faults ELSE write_faults - 1
    /\ wrote' = IF ok THEN "ok" ELSE "failed"

\* App::save_state: LocalStorage::set, its Result dropped
save_state ==
  \E ok \in BOOLEAN :
    /\ ok \/ write_faults > 0
    /\ stored' = IF ok THEN Some(Serialize(state')) ELSE stored
    /\ write_faults' = IF ok THEN write_faults ELSE write_faults - 1
    /\ wrote' = IF ok THEN "ok" ELSE "failed"

\* mutant: the arm writes the BrowserState it found
NoSaveSaves == stored' = Some(Serialize(state)) /\ UNCHANGED write_faults /\ wrote' = "ok"

\* an arm of update() that does not call save_state
NoSave == UNCHANGED <<stored, write_faults>> /\ wrote' = "none"

\* iter_mut().find(|t| t.id == active_tab_id): the tab found, if any, becomes
\* changed[i], what the body of the `if let` makes of tab i
UpdateActiveTab(tabs, active, changed) ==
  LET i == Position(tabs, active) IN
  IF i = 0 THEN tabs ELSE [tabs EXCEPT ![i] = changed[i]]

\* -------------------------------------------------------------- App::update

\* u32 += 1 in a build without overflow checks
WrappingInc(n) == (n + 1) % IdModulus

NewTab ==
  LET new_tab == [DefaultTab EXCEPT !.id = state.next_tab_id]
      pushed == [state EXCEPT !.tabs = Append(@, new_tab),
                              !.active_tab_id = state.next_tab_id]
  IN
  /\ Len(state.tabs) < MaxTabs
  /\ Handles("NewTab", None, None)
  /\ \E checks \in BOOLEAN :
       /\ overflow_checks \in {None, Some(checks)}
       /\ IF state.next_tab_id = U32Max /\ checks
            THEN \* attempt to add with overflow: panic after the push
                 /\ state' = pushed
                 /\ panicked' = TRUE
                 /\ overflow_checks' = Some(TRUE)
                 /\ UNCHANGED url_input
                 /\ NoSave
            ELSE /\ state' = [pushed EXCEPT !.next_tab_id = WrappingInc(@)]
                 /\ overflow_checks' = IF state.next_tab_id = U32Max
                                         THEN Some(FALSE) ELSE overflow_checks
                 /\ ~checks
                 /\ url_input' = EmptyStr
                 /\ save_state
                 /\ UNCHANGED panicked
  /\ UNCHANGED <<show_settings, show_downloads, dragging_tab>>

\* mutant: the index is not moved to the left
CloseNewIdxSameIndex(idx, new_len) == Min(idx, new_len - 1)

\* the tab made active when the active tab at 0-based index idx is closed
CloseNewIdx(idx, new_len) == Min(SaturatingSub1(idx), new_len - 1)

\* mutant: save_state is called outside the length test
CloseSoleTabSaves == UNCHANGED <<state, url_input>> /\ save_state

\* CloseTab when tabs.len() > 1 is false: nothing is done
CloseSoleTab == UNCHANGED <<state, url_input>> /\ NoSave

CloseTab(id) ==
  /\ Handles("CloseTab", Some(id), id)
  /\ IF Len(state.tabs) > 1
       THEN LET idx == Position(state.tabs, id) IN
            /\ IF idx # 0
                 THEN LET tabs == RemoveAt(state.tabs, idx) IN
                      IF state.active_tab_id = id
                        THEN LET new_idx == CloseNewIdx(idx - 1, Len(tabs)) IN
                             /\ state' = [state EXCEPT
                                            !.tabs = tabs,
                                            !.active_tab_id = tabs[new_idx + 1].id]
                             /\ url_input' = UrlBarText(tabs[new_idx + 1].url)
                        ELSE /\ state' = [state EXCEPT !.tabs = tabs]
                             /\ UNCHANGED url_input
                 ELSE UNCHANGED <<state, url_input>>
            /\ save_state
       ELSE CloseSoleTab
  /\ UNCHANGED <<show_settings, show_downloads, dragging_tab, build>>

SelectTab(id) ==
  /\ Handles("SelectTab", Some(id), id)
  /\ state' = [state EXCEPT !.active_tab_id = id]
  /\ LET i == Position(state.tabs, id) IN
     url_input' = IF i # 0 THEN UrlBarText(state.tabs[i].url) ELSE url_input
  /\ save_state
  /\ UNCHANGED <<show_settings, show_downloads, dragging_tab, build>>

NavigateTab(tab, final_url, title) ==
  [tab EXCEPT !.url = final_url, !.title = title, !.is_loading = TRUE]

Navigate(url) ==
  LET final_url == process_url(state.search_engine, url)
      title == get_title_from_url(final_url)
      changed == [i \in 1..Len(state.tabs) |->
                    NavigateTab(state.tabs[i], final_url, title)]
  IN
  /\ Handles("Navigate", None, url)
  /\ state' = [state EXCEPT
                 !.tabs = UpdateActiveTab(@, state.active_tab_id, changed)]
  /\ url_input' = final_url
  /\ save_state
  /\ UNCHANGED <<show_settings, show_downloads, dragging_tab, build>>

GoBack ==
  /\ Handles("GoBack", None, None)
  /\ NoSave
  /\ UNCHANGED <<state, url_input, show_settings, show_downloads, dragging_tab,
                 build>>

GoForward ==
  /\ Handles("GoForward", None, None)
  /\ NoSave
  /\ UNCHANGED <<state, url_input, show_settings, show_downloads, dragging_tab,
                 build>>

\* mutant: the tab's title is reset as well
ReloadTabResetsTitle(tab) == [tab EXCEPT !.is_loading = TRUE, !.title = NewTabTitle]

ReloadTab(tab) == [tab EXCEPT !.is_loading = TRUE]

Reload ==
  LET changed == [i \in 1..Len(state.tabs) |-> ReloadTab(state.tabs[i])] IN
  /\ Handles("Reload", None, None)
  /\ state' = [state EXCEPT
                 !.tabs = UpdateActiveTab(@, state.active_tab_id, changed)]
  /\ NoSave
  /\ UNCHANGED <<url_input, show_settings, show_downloads, dragging_tab, build>>

HomeTab(tab) ==
  [tab EXCEPT !.url = HomeUrl, !.title = HomeTitle, !.is_loading = FALSE]

GoHome ==
  LET changed == [i \in 1..Len(state.tabs) |-> HomeTab(state.tabs[i])] IN
  /\ Handles("GoHome", None, None)
  /\ state' = [state EXCEPT
                 !.tabs = UpdateActiveTab(@, state.active_tab_id, changed)]
  /\ url_input' = EmptyStr
  /\ save_state
  /\ UNCHANGED <<show_settings, show_downloads, dragging_tab, build>>

UpdateUrlBar(value) ==
  /\ Handles("UpdateUrlBar", None, value)
  /\ url_input' = value
  /\ NoSave
  /\ UNCHANGED <<state, show_settings, show_downloads, dragging_tab, build>>

SetSearchEngine(engine) ==
  /\ Handles("SetSearchEngine", None, engine)
  /\ state' = [state EXCEPT !.search_engine = engine]
  /\ save_state
  /\ UNCHANGED <<url_input, show_settings, show_downloads, dragging_tab, build>>

SetProxyServer(proxy) ==
  /\ Handles("SetProxyServer", None, proxy)
  /\ state' = [state EXCEPT !.proxy_server = proxy]
  /\ save_state
  /\ UNCHANGED <<url_input, show_settings, show_downloads, dragging_tab, build>>

\* the settings flag after ToggleSettingsPanel / ToggleDownloadsPanel
SettingsAfterToggle(msg) ==
  IF msg = "ToggleSettingsPanel" THEN ~show_settings ELSE FALSE

\* mutant: opening a panel does not close the other one
DownloadsAfterToggleKeepsOther(msg) ==
  IF msg = "ToggleDownloadsPanel" THEN ~show_downloads ELSE show_downloads

\* the downloads flag after ToggleSettingsPanel / ToggleDownloadsPanel
DownloadsAfterToggle(msg) ==
  IF msg = "ToggleDownloadsPanel" THEN ~show_downloads ELSE FALSE

ToggleSettingsPanel ==
  /\ Handles("ToggleSettingsPanel", None, None)
  /\ show_settings' = SettingsAfterToggle("ToggleSettingsPanel")
  /\ show_downloads' = DownloadsAfterToggle("ToggleSettingsPanel")
  /\ NoSave
  /\ UNCHANGED <<state, url_input, dragging_tab, build>>

ToggleDownloadsPanel ==
  /\ Handles("ToggleDownloadsPanel", None, None)
  /\ show_downloads' = DownloadsAfterToggle("ToggleDownloadsPanel")
  /\ show_settings' = SettingsAfterToggle("ToggleDownloadsPanel")
  /\ NoSave
  /\ UNCHANGED <<state, url_input, dragging_tab, build>>

DeleteDownload(id) ==
  /\ Handles("DeleteDownload", Some(id), id)
  /\ state' = [state EXCEPT !.downloads = RetainOtherIds(@, id)]
  /\ save_state
  /\ UNCHANGED <<url_input, show_settings, show_downloads, dragging_tab, build>>

OpenDownloadFolder(id) ==
  /\ Handles("OpenDownloadFolder", None, id)
  /\ NoSave
  /\ UNCHANGED <<state, url_input, show_settings, show_downloads, dragging_tab,
                 build>>

DragStart(id) ==
  /\ Handles("DragStart", Some(id), id)
  /\ dragging_tab' = Some(id)
  /\ NoSave
  /\ UNCHANGED <<state, url_input, show_settings, show_downloads, build>>

\* mutant: the two tabs change places
MoveTabSwaps(tabs, from, to) == [tabs EXCEPT ![from] = tabs[to], ![to] = tabs[from]]

\* tabs.remove(from) followed by tabs.insert(to, tab), 1-based
MoveTab(tabs, from, to) == InsertAt(RemoveAt(tabs, from), to, tabs[from])

\* mutant: a tab dragged over itself goes to the end of the strip
DragOverSelfMovesLast(target_id) ==
  /\ Handles("DragOver", Some(target_id), target_id)
  /\ IF dragging_tab # None
       THEN LET drag_idx == Position(state.tabs, dragging_tab[1])
                target_idx == Position(state.tabs, target_id)
            IN
            IF drag_idx # 0 /\ target_idx # 0
              THEN state' = [state EXCEPT
                               !.tabs = IF drag_idx = target_idx
                                          THEN MoveTab(@, drag_idx, Len(@))
                                          ELSE MoveTab(@, drag_idx, target_idx)]
              ELSE UNCHANGED state
       ELSE UNCHANGED state
  /\ NoSave
  /\ UNCHANGED <<url_input, show_settings, show_downloads, dragging_tab, build>>

DragOver(target_id) ==
  /\ Handles("DragOver", Some(target_id), target_id)
  /\ IF dragging_tab # None /\ dragging_tab[1] # target_id
       THEN LET drag_idx == Position(state.tabs, dragging_tab[1])
                target_idx == Position(state.tabs, target_id)
            IN
            IF drag_idx # 0 /\ target_idx # 0
              THEN state' = [state EXCEPT !.tabs = MoveTab(@, drag_idx, target_idx)]
              ELSE UNCHANGED state
       ELSE UNCHANGED state
  /\ NoSave
  /\ UNCHANGED <<url_input, show_settings, show_downloads, dragging_tab, build>>

\* mutant: the drop is not saved
DragEndNoSave ==
  /\ Handles("DragEnd", None, None)
  /\ dragging_tab' = None
  /\ state' = state
  /\ NoSave
  /\ UNCHANGED <<url_input, show_settings, show_downloads, build>>

DragEnd ==
  /\ Handles("DragEnd", None, None)
  /\ dragging_tab' = None
  /\ state' = state
  /\ save_state
  /\ UNCHANGED <<url_input, show_settings, show_downloads, build>>

CloseAllPanels ==
  /\ Handles("CloseAllPanels", None, None)
  /\ show_settings' = FALSE
  /\ show_downloads' = FALSE
  /\ NoSave
  /\ UNCHANGED <<state, url_input, dragging_tab, build>>

NoOp ==
  /\ Handles("NoOp", None, None)
  /\ NoSave
  /\ UNCHANGED <<state, url_input, show_settings, show_downloads, dragging_tab,
                 build>>

\* The page is loaded again: App::create builds a new component from what the
\* store holds; the build is the same one.
Restart ==
  /\ state' = LoadState(stored)
  /\ url_input' = (IF ActiveTab(state') = None THEN EmptyStr
                   ELSE UrlBarText(ActiveTab(state')[1].url))
  /\ show_settings' = FALSE
  /\ show_downloads' = FALSE
  /\ dragging_tab' = None
  /\ panicked' = FALSE
  /\ wrote' = "none"
  /\ last' = NoMsg
  /\ scen' = -1
  /\ UNCHANGED <<stored, write_faults, overflow_checks, call>>

\* ----------------------------------------------------------- specifications

\* the messages of the tab strip
StripMsg ==
  \/ NewTab
  \/ \E id \in TabIdArgs : CloseTab(id)
  \/ \E id \in TabIdArgs : SelectTab(id)
  \/ \E id \in TabIdArgs : DragStart(id)
  \/ \E id \in TabIdArgs : DragOver(id)
  \/ DragEnd

\* the messages of the navigation bar
NavMsg ==
  \/ \E url \in NavInputs : Navigate(url)
  \/ GoBack
  \/ GoForward
  \/ Reload
  \/ GoHome
  \/ \E value \in UrlBarInputs : UpdateUrlBar(value)

\* the messages of the settings and downloads panels and of the background
PanelMsg ==
  \/ \E engine \in EngineInputs : SetSearchEngine(engine)
  \/ \E proxy \in ProxyInputs : SetProxyServer(proxy)
  \/ ToggleSettingsPanel
  \/ ToggleDownloadsPanel
  \/ \E id \in DownloadIdArgs : DeleteDownload(id)
  \/ \E id \in DownloadIdArgs : OpenDownloadFolder(id)
  \/ CloseAllPanels
  \/ NoOp

Next == StripMsg \/ NavMsg \/ PanelMsg

\* every message, over a store that may reject writes
Spec == Init /\ [][Next]_vars

\* opening, closing and selecting tabs
TabMsg ==
  \/ NewTab
  \/ \E id \in TabIdArgs : CloseTab(id)
  \/ \E id \in TabIdArgs : SelectTab(id)

\* navigating the active tab and typing into the URL bar
UrlMsg ==
  \/ \E url \in NavInputs : Navigate(url)
  \/ GoHome
  \/ \E value \in UrlBarInputs : UpdateUrlBar(value)

\* tabs and navigation
SpecTabs == InitReliable /\ [][TabMsg \/ UrlMsg]_vars

\* the tab strip, drags included
SpecStrip == InitReliable /\ [][StripMsg]_vars

\* panels, settings and navigation of the one tab
SpecPanels == InitReliable /\ [][PanelMsg \/ NavMsg]_vars

\* dragging tabs of different contents along the strip
DragMsg ==
  \/ NewTab
  \/ \E url \in NavInputs : Navigate(url)
  \/ \E id \in TabIdArgs : DragStart(id)
  \/ \E id \in TabIdArgs : DragOver(id)
  \/ DragEnd

SpecDrag == InitReliable /\ [][DragMsg]_vars

\* texts submitted from the URL bar: a domain and the home URL
HomeNavInputs == NavInputs \cup {HomeUrl}

\* tabs, and navigation to the home URL by its name
UrlBarMsg ==
  \/ TabMsg
  \/ \E url \in HomeNavInputs : Navigate(url)
  \/ GoHome

SpecUrlBar == InitReliable /\ [][UrlBarMsg]_vars

\* texts submitted from the URL bar: a domain, a domain with a tab character
\* in it and a scheme with nothing after it
OddNavInputs == NavInputs \cup {<<".", "\t", ".">>, HttpsPrefix}

\* navigation with any of the engines, in any tab
NavigateMsg ==
  \/ NewTab
  \/ \E id \in TabIdArgs : SelectTab(id)
  \/ \E url \in OddNavInputs : Navigate(url)
  \/ \E engine \in EngineInputs : SetSearchEngine(engine)

SpecNavigate == InitReliable /\ [][NavigateMsg]_vars

\* reloading tabs while a panel is open and a text is typed
ReloadMsg ==
  \/ NewTab
  \/ \E id \in TabIdArgs : SelectTab(id)
  \/ \E url \in NavInputs : Navigate(url)
  \/ Reload
  \/ \E value \in UrlBarInputs : UpdateUrlBar(value)
  \/ ToggleSettingsPanel

SpecReload == InitReliable /\ [][ReloadMsg]_vars

\* the messages that touch only the ephemeral state or nothing, among
\* messages that save and a reload that leaves the store behind the state
EphemeralMsg ==
  \/ NewTab
  \/ \E url \in NavInputs : Navigate(url)
  \/ Reload
  \/ GoBack
  \/ GoForward
  \/ \E value \in UrlBarInputs : UpdateUrlBar(value)
  \/ ToggleSettingsPanel
  \/ ToggleDownloadsPanel
  \/ CloseAllPanels
  \/ \E id \in TabIdArgs : DragStart(id)
  \/ DragEnd
  \/ \E id \in DownloadIdArgs : DeleteDownload(id)

SpecEphemeral == InitReliable /\ [][EphemeralMsg]_vars

\* the two messages that change the BrowserState without saving, between
\* messages that save
SyncMsg ==
  \/ NewTab
  \/ Reload
  \/ \E id \in TabIdArgs : DragStart(id)
  \/ \E id \in TabIdArgs : DragOver(id)
  \/ DragEnd

SpecSync == InitReliable /\ [][SyncMsg]_vars

\* messages that save, a reload of the active tab and a reload of the page
StoreMsg ==
  \/ NewTab
  \/ \E url \in NavInputs : Navigate(url)
  \/ Reload
  \/ GoHome
  \/ \E engine \in EngineInputs : SetSearchEngine(engine)
  \/ \E proxy \in ProxyInputs : SetProxyServer(proxy)
  \/ \E id \in DownloadIdArgs : DeleteDownload(id)
  \/ Restart

\* the store and the component built from it, over a store that may reject writes
SpecStore == Init /\ [][StoreMsg]_vars

\* the URL resolver on its own: one call of process_url on a text, then
\* get_title_from_url on the URL it returned, as Navigate calls them
Alphabet == {"a", ".", " ", "\t", "/"}
Bodies == UNION {[1..n -> Alphabet] : n \in 0..MaxLen}
Schemes == {EmptyStr, HttpPrefix, HttpsPrefix, GraphitePrefix}
Leads == {EmptyStr, <<" ">>}
RawInputs ==
  {l \o p \o b : l \in Leads, p \in Schemes, b \in Bodies}
    \cup {ExampleCom, FooBar, HttpsPrefix \o XCom, RustLangOrg}

app == <<state, url_input, show_settings, show_downloads, dragging_tab, stored,
         overflow_checks, panicked, write_faults, wrote, last, scen>>

CallProcessUrl ==
  \E engine \in AllEngines, raw \in RawInputs :
    /\ call.fn = "none"
    /\ call' = [fn |-> "process_url", engine |-> engine, input |-> raw,
                output |-> process_url(engine, raw)]
    /\ UNCHANGED app

CallGetTitle ==
  /\ call.fn = "process_url"
  /\ call' = [fn |-> "get_title_from_url", engine |-> call.engine,
              input |-> call.output, output |-> get_title_from_url(call.output)]
  /\ UNCHANGED app

SpecResolver == InitReliable /\ [][CallProcessUrl \/ CallGetTitle]_vars

\* ------------------------------------------------------------------ claims

TabIds(tabs) == {tabs[i].id : i \in 1..Len(tabs)}

IdsOf(tabs) == [i \in 1..Len(tabs) |-> tabs[i].id]

\* C1: in every reachable state active_tab_id is the id of exactly one tab of
\* tabs.
C1_ActiveTabIsOneTab ==
  Cardinality({i \in 1..Len(state.tabs) : state.tabs[i].id = state.active_tab_id}) = 1

\* C2: tabs is never empty, and a CloseTab step taken when one tab is open
\* leaves tabs, active_tab_id, next_tab_id, the URL-bar text and the stored
\* snapshot unchanged.
C2_TabsNeverEmpty ==
  /\ [](Len(state.tabs) >= 1)
  /\ [][(last'.msg = "CloseTab" /\ Len(state.tabs) = 1) =>
         /\ state'.tabs = state.tabs
         /\ state'.active_tab_id = state.active_tab_id
         /\ state'.next_tab_id = state.next_tab_id
         /\ url_input' = url_input
         /\ stored' = stored]_vars

\* the sole tab has been asked to close while the store lags behind the state
C2_Witness ==
  /\ last.msg = "CloseTab"
  /\ last.len = 1
  /\ last.idx = 1
  /\ Len(state.tabs) = 1
  /\ stored # Some(Serialize(state))

\* the step handles a message that names a tab or download the state lacks
NamesAbsentId ==
  \/ last'.msg \in {"SelectTab", "CloseTab", "DeleteDownload"} /\ last'.idx = 0
  \/ /\ last'.msg = "DragOver"
     /\ dragging_tab # None
     /\ last'.idx = 0 \/ Position(state.tabs, dragging_tab[1]) = 0

\* C3: a step of SelectTab, CloseTab, DragOver or DeleteDownload that names an
\* absent tab or download id leaves the BrowserState as it was.
C3_AbsentIdIsNoOp == [][NamesAbsentId => state' = state]_vars

\* C5: no two tabs of tabs have the same id, in every reachable state.
C5_TabIdsUnique ==
  \A i, j \in 1..Len(state.tabs) :
    state.tabs[i].id = state.tabs[j].id => i = j

\* C6: every NewTab step makes next_tab_id strictly larger, every other step
\* leaves it unchanged, and every tab id stays smaller than next_tab_id.
C6_NextTabIdIncreases ==
  [][/\ (last'.msg = "NewTab" /\ ~panicked') => state'.next_tab_id > state.next_tab_id
     /\ last'.msg # "NewTab" => state'.next_tab_id = state.next_tab_id
     /\ \A id \in TabIds(state'.tabs) : id < state'.next_tab_id]_vars

\* the step closes the tab at position last'.idx, which is the active one,
\* while at least two tabs are open
ClosesActiveTab ==
  /\ last'.msg = "CloseTab"
  /\ last'.idx # 0
  /\ last'.was_active
  /\ last'.len >= 2

\* C4 as claimed: closing the active tab makes its left neighbour active, and
\* the new last tab when the closed tab was the first.
C4_LeftNeighbourElseLast ==
  [][ClosesActiveTab =>
       state'.active_tab_id =
         IF last'.idx = 1 THEN state'.tabs[Len(state'.tabs)].id
         ELSE state.tabs[last'.idx - 1].id]_vars

\* C4 as amended: closing the active tab makes its left neighbour active, and
\* its right neighbour (the new first tab) when the closed tab was the first.
C4_LeftNeighbourElseRight ==
  [][ClosesActiveTab =>
       state'.active_tab_id =
         IF last'.idx = 1 THEN state.tabs[2].id
         ELSE state.tabs[last'.idx - 1].id]_vars

\* the first of three tabs has been closed while it was active
C4_Witness ==
  /\ last.msg = "CloseTab"
  /\ last.was_active
  /\ last.idx = 1
  /\ last.len = 3
  /\ Len(state.tabs) = 2

\* C7: the two panels are never both open; ToggleDownloadsPanel right after a
\* ToggleSettingsPanel that found both closed leaves the downloads panel open and
\* the settings panel closed; CloseAllPanels leaves both closed.
C7_PanelsExclusive ==
  /\ [](/\ ~(show_settings /\ show_downloads)
        /\ last.msg = "CloseAllPanels" => ~show_settings /\ ~show_downloads)
  /\ [][(/\ last.msg = "ToggleSettingsPanel"
         /\ last.panel = "none"
         /\ last'.msg = "ToggleDownloadsPanel") =>
          show_downloads' /\ ~show_settings']_vars

\* ToggleDownloadsPanel has been handled while the settings panel was open
C7_Witness ==
  /\ last.msg = "ToggleDownloadsPanel"
  /\ last.panel = "settings"
  /\ show_downloads
  /\ ~show_settings

\* C8: from the state after create, NewTab gives tabs [0, 1] with 1 active;
\* Navigate("rust-lang.org") then gives the active tab the url
\* "https://rust-lang.org" and the title "rust-lang.org"; CloseTab(1) then gives
\* tabs [0] with 0 active and an empty URL bar.
C8_Scenario ==
  /\ scen = 0 => IdsOf(state.tabs) = <<0>> /\ state.tabs[1].url = HomeUrl
  /\ scen = 1 => IdsOf(state.tabs) = <<0, 1>> /\ state.active_tab_id = 1
  /\ scen = 2 => /\ ActiveTab(state) # None
                 /\ ActiveTab(state)[1].url = HttpsPrefix \o RustLangOrg
                 /\ ActiveTab(state)[1].title = RustLangOrg
  /\ scen = 3 => /\ IdsOf(state.tabs) = <<0>>
                 /\ state.active_tab_id = 0
                 /\ url_input = EmptyStr

\* the three messages of the scenario have been handled
C8_Witness == scen = 3 /\ last.msg = "CloseTab" /\ last.id = Some(1)

HasScheme(input) ==
  \/ StartsWith(input, HttpPrefix)
  \/ StartsWith(input, HttpsPrefix)
  \/ StartsWith(input, GraphitePrefix)

\* resolve as C9 states it: a bare domain has a '.' and no whitespace character
\* of any kind
ClaimedResolve(engine, raw) ==
  LET input == Trim(raw) IN
  IF HasScheme(input) THEN input
  ELSE IF Contains(input, ".") /\ \A i \in 1..Len(input) : input[i] \notin Whitespace
    THEN HttpsPrefix \o input
  ELSE SearchTemplate(engine) \o encode_uri_component(input)

\* C9: process_url returns the trimmed input when it has a scheme, else
\* "https://" + input when it has a '.' and no whitespace character of any kind,
\* else the engine's search URL of the percent-encoded input.
C9_Resolve ==
  call.fn = "process_url" => call.output = ClaimedResolve(call.engine, call.input)

\* the three examples C9 gives
ResolveExamples ==
  /\ \A engine \in AllEngines :
       /\ process_url(engine, ExampleCom) = HttpsPrefix \o ExampleCom
       /\ process_url(engine, HttpsPrefix \o XCom) = HttpsPrefix \o XCom
  /\ process_url("Google", FooBar) =
       HttpsPrefix \o <<"w","w","w",".","g","o","o","g","l","e",".","c","o","m",
                        "/","s","e","a","r","c","h","?","q","=",
                        "f","o","o","%","2","0","b","a","r">>

\* titleFor as C10 states it
ClaimedTitle(url) ==
  IF StartsWith(url, GraphitePrefix) THEN HomeTitle
  ELSE LET rest == IF StartsWith(url, HttpsPrefix)
                     THEN SubSeq(url, Len(HttpsPrefix) + 1, Len(url))
                   ELSE IF StartsWith(url, HttpPrefix)
                     THEN SubSeq(url, Len(HttpPrefix) + 1, Len(url))
                   ELSE url
           host == BeforeSlash(rest)
       IN IF host = EmptyStr THEN NewTabTitle ELSE host

\* C10: get_title_from_url returns "Home" for an internal-scheme URL, else the
\* text between the http:// or https:// prefix and the first '/', and "New Tab"
\* when that text is empty.
C10_Title ==
  call.fn = "get_title_from_url" => call.output = ClaimedTitle(call.input)

C12_DefaultOnStartup ==
  (last.msg = "create" /\ stored \in {None, Some(CorruptJson)}) =>
    /\ Len(state.tabs) = 1
    /\ state.tabs[1].id = 0
    /\ state.tabs[1].url = HomeUrl
    /\ state.tabs[1].title = HomeTitle
    /\ state.active_tab_id = 0
    /\ state.next_tab_id = 1
    /\ state.search_engine = "Google"
    /\ state.proxy_server = EmptyStr
    /\ state.downloads = <<[id |-> 0, filename |-> "google.png", completed |-> TRUE],
                           [id |-> 1, filename |-> "graphiteiscool.txt",
                            completed |-> TRUE],
                           [id |-> 2, filename |-> "vscode.exe", completed |-> TRUE]>>
    /\ url_input = EmptyStr
    /\ ~show_settings
    /\ ~show_downloads
    /\ dragging_tab = None

\* the page has been loaded again over a store whose value is no BrowserState,
\* after the one write of the session was rejected
C12_Witness ==
  /\ last.msg = "create"
  /\ stored = Some(CorruptJson)
  /\ write_faults < MaxFailedWrites

\* C13: a step whose write the store rejects makes one call of set, leaves the
\* store's content as it was, does not fail and returns what it returns when
\* the write is accepted; what it did to the BrowserState and to the URL bar
\* stays.
C13_FailedWriteSwallowed ==
  [][wrote' = "failed" =>
       /\ stored' = stored
       /\ write_faults' = write_faults - 1
       /\ ~panicked'
       /\ last'.redraw
       /\ last'.msg = "NewTab" =>
            /\ Len(state'.tabs) = Len(state.tabs) + 1
            /\ state'.active_tab_id = state.next_tab_id
            /\ url_input' = EmptyStr
       /\ last'.msg = "Navigate" =>
            /\ url_input' = process_url(state.search_engine, RustLangOrg)
            /\ ActiveTab(state') # None
            /\ ActiveTab(state')[1].url = url_input'
            /\ ActiveTab(state')[1].is_loading
       /\ last'.msg = "GoHome" =>
            /\ url_input' = EmptyStr
            /\ ActiveTab(state') # None
            /\ ActiveTab(state')[1].url = HomeUrl
       /\ last'.msg = "SetProxyServer" => state'.proxy_server # EmptyStr
       /\ (last'.msg = "DeleteDownload" /\ last'.idx # 0) =>
            Len(state'.downloads) = Len(state.downloads) - 1]_vars

\* the store has rejected the write of a NewTab step, which left the new tab in
\* the BrowserState and an older snapshot in the store
C13_Witness ==
  /\ wrote = "failed"
  /\ last.msg = "NewTab"
  /\ Len(state.tabs) = 2
  /\ stored # None
  /\ stored # Some(CorruptJson)
  /\ LoadState(stored) # state

\* C14: a DragOver step whose target is the dragged tab, or that finds no drag
\* in progress, leaves tabs as it was.
C14_DragOverSelfOrIdle ==
  [][(/\ last'.msg = "DragOver"
      /\ dragging_tab = None \/ dragging_tab = last'.id) =>
       state'.tabs = state.tabs]_vars

\* a tab that an earlier DragOver moved to the front of three has been dragged
\* over itself
C14_Witness ==
  /\ last.msg = "DragOver"
  /\ dragging_tab = last.id
  /\ last.idx = 1
  /\ last.len = 3
  /\ state.tabs[1].id # 0

\* C17: a DragOver step with a drag in progress, both tabs present and
\* different, puts the dragged tab where the target was, keeps the other tabs in
\* their order, and changes no tab and no other field of the BrowserState.
C17_DragOverMoves ==
  [][(/\ last'.msg = "DragOver"
      /\ last'.idx # 0
      /\ dragging_tab # None
      /\ dragging_tab # last'.id
      /\ Position(state.tabs, dragging_tab[1]) # 0) =>
       \E from \in 1..Len(state.tabs) :
         /\ state.tabs[from].id = dragging_tab[1]
         /\ Len(state'.tabs) = Len(state.tabs)
         /\ state'.tabs[last'.idx] = state.tabs[from]
         /\ RemoveAt(state'.tabs, last'.idx) = RemoveAt(state.tabs, from)
         /\ state' = [state EXCEPT !.tabs = state'.tabs]]_vars

\* the last of three tabs, one of them navigated, has been dragged over the
\* first and is now in front of it
C17_Witness ==
  /\ last.msg = "DragOver"
  /\ last.idx = 1
  /\ last.len = 3
  /\ dragging_tab = Some(2)
  /\ IdsOf(state.tabs) = <<2, 0, 1>>
  /\ state.tabs[3].url # HomeUrl
  /\ state.tabs[1].url = HomeUrl

\* C15: every step of update() completes: NewTab's counter arithmetic does not
\* fail, the index CloseTab reads after the removal is inside tabs, the index
\* DragOver inserts at is inside tabs, and tabs is not empty.
C15_EveryStepCompletes ==
  [][/\ ~panicked'
     /\ Len(state'.tabs) >= 1
     /\ (last'.msg = "CloseTab" /\ last'.idx # 0 /\ last'.len > 1) =>
          CloseNewIdx(last'.idx - 1, Len(state'.tabs)) \in 0..(Len(state'.tabs) - 1)
     /\ (last'.msg = "DragOver" /\ last'.idx # 0) =>
          last'.idx - 1 \in 0..(Len(state.tabs) - 1)]_vars

\* the step is one after which C16 wants the URL bar in step with the active tab
SyncsUrlBar ==
  \/ last'.msg \in {"NewTab", "Navigate", "GoHome"}
  \/ last'.msg = "SelectTab" /\ last'.idx # 0
  \/ last'.msg = "CloseTab" /\ last'.idx # 0 /\ last'.len >= 2 /\ last'.was_active

\* C16: after a step of NewTab, CloseTab of the active tab, SelectTab of a
\* present id, Navigate or GoHome the URL bar is empty when the active tab's url
\* is the home URL, and shows the active tab's url otherwise.
C16_UrlBarFollowsActiveTab ==
  [][(SyncsUrlBar /\ ~panicked' /\ ActiveTab(state') # None) =>
       url_input' = IF ActiveTab(state')[1].url = HomeUrl THEN EmptyStr
                    ELSE ActiveTab(state')[1].url]_vars

\* C18: Navigate(text) gives the active tab the url resolve(text, search_engine)
\* as C9 states it, the title titleFor(url) as C10 states it and is_loading =
\* true, shows that url in the URL bar, and changes no other tab and no other
\* field of the BrowserState.
C18_Navigate ==
  [][last'.msg = "Navigate" =>
       LET url == ClaimedResolve(state.search_engine, last'.text)
           active == Position(state.tabs, state.active_tab_id)
       IN
       /\ Len(state'.tabs) = Len(state.tabs)
       /\ \A i \in 1..Len(state.tabs) :
            state'.tabs[i] =
              IF i = active
                THEN [state.tabs[i] EXCEPT !.url = url, !.title = ClaimedTitle(url),
                                           !.is_loading = TRUE]
                ELSE state.tabs[i]
       /\ url_input' = url
       /\ state' = [state EXCEPT !.tabs = state'.tabs]]_vars

\* Navigate as the code computes it: C18 with process_url and
\* get_title_from_url in the place of resolve and titleFor
NavigateAsCoded ==
  [][last'.msg = "Navigate" =>
       LET url == process_url(state.search_engine, last'.text)
           active == Position(state.tabs, state.active_tab_id)
       IN
       /\ Len(state'.tabs) = Len(state.tabs)
       /\ \A i \in 1..Len(state.tabs) :
            state'.tabs[i] =
              IF i = active
                THEN [state.tabs[i] EXCEPT !.url = url,
                                           !.title = get_title_from_url(url),
                                           !.is_loading = TRUE]
                ELSE state.tabs[i]
       /\ url_input' = url
       /\ state' = [state EXCEPT !.tabs = state'.tabs]]_vars

\* C19: a CloseTab step that finds its tab among at least two removes one tab,
\* which has that id, and keeps the others with their contents and in their
\* order; next_tab_id is unchanged; when the tab is not the active one,
\* active_tab_id and the URL-bar text are unchanged.
C19_CloseRemovesOneTab ==
  [][(last'.msg = "CloseTab" /\ last'.idx # 0 /\ last'.len >= 2) =>
       /\ \E i \in 1..Len(state.tabs) :
            /\ state.tabs[i].id = last'.id[1]
            /\ Len(state'.tabs) = Len(state.tabs) - 1
            /\ \A j \in 1..Len(state'.tabs) :
                 state'.tabs[j] = state.tabs[IF j < i THEN j ELSE j + 1]
       /\ state'.next_tab_id = state.next_tab_id
       /\ ~last'.was_active =>
            /\ state'.active_tab_id = state.active_tab_id
            /\ url_input' = url_input]_vars

\* the middle one of three tabs has been closed while the last one, navigated,
\* was active and a typed text was in the URL bar
C19_Witness ==
  /\ last.msg = "CloseTab"
  /\ last.idx = 2
  /\ last.len = 3
  /\ ~last.was_active
  /\ Len(state.tabs) = 2
  /\ state.active_tab_id = state.tabs[2].id
  /\ state.tabs[2].url = HttpsPrefix \o RustLangOrg
  /\ url_input = <<"r">>

\* C20: a Reload step sets is_loading on the active tab and changes nothing
\* else: no other field of that tab, no other tab, no other field of the
\* BrowserState, not the URL-bar text, the panel flags or the dragged tab; and it
\* does not write to the store.
C20_ReloadOnlySetsLoading ==
  [][last'.msg = "Reload" =>
       /\ Len(state'.tabs) = Len(state.tabs)
       /\ \A i \in 1..Len(state.tabs) :
            state'.tabs[i] =
              IF i = Position(state.tabs, state.active_tab_id)
                THEN [state.tabs[i] EXCEPT !.is_loading = TRUE]
                ELSE state.tabs[i]
       /\ state' = [state EXCEPT !.tabs = state'.tabs]
       /\ url_input' = url_input
       /\ show_settings' = show_settings
       /\ show_downloads' = show_downloads
       /\ dragging_tab' = dragging_tab
       /\ wrote' = "none"
       /\ stored' = stored]_vars

\* the first of two tabs, the active one, has been reloaded while the settings
\* panel was open and a typed text was in the URL bar; the store still holds the
\* tab as not loading
C20_Witness ==
  /\ last.msg = "Reload"
  /\ Len(state.tabs) = 2
  /\ state.active_tab_id = state.tabs[1].id
  /\ state.tabs[1].is_loading
  /\ state.tabs[1].title = HomeTitle
  /\ state.tabs[2].url = HttpsPrefix \o RustLangOrg
  /\ show_settings
  /\ url_input = <<"r">>
  /\ stored # None
  /\ ~LoadState(stored).tabs[1].is_loading

\* C21: no step clears is_loading: a tab that is loading before a step and is
\* still open after it is loading after it.
C21_LoadingNeverCleared ==
  [][\A i \in 1..Len(state.tabs), j \in 1..Len(state'.tabs) :
       (state.tabs[i].id = state'.tabs[j].id /\ state.tabs[i].is_loading) =>
         state'.tabs[j].is_loading]_vars

\* the messages C22 names
EphemeralOnly ==
  {"GoBack", "GoForward", "UpdateUrlBar", "ToggleSettingsPanel",
   "ToggleDownloadsPanel", "CloseAllPanels", "DragStart"}

\* the messages with an arm that assigns to the BrowserState
MutatesBrowserState ==
  {"NewTab", "CloseTab", "SelectTab", "Navigate", "Reload", "GoHome",
   "SetSearchEngine", "SetProxyServer", "DeleteDownload", "DragOver"}

\* a step of one of the messages C22 names leaves the BrowserState and the store
\* as they were and calls no write
EphemeralStepsLeaveStore ==
  last'.msg \in EphemeralOnly =>
    /\ state' = state
    /\ wrote' = "none"
    /\ stored' = stored

\* C22 as claimed: the named messages leave the BrowserState and the store
\* alone, and a write happens only in a step of a message that mutates the
\* BrowserState.
C22_WritesOnlyWhenMutating ==
  [][/\ EphemeralStepsLeaveStore
     /\ wrote' # "none" => last'.msg \in MutatesBrowserState]_vars

\* C22 as amended: the named messages leave the BrowserState and the store
\* alone, and a write happens only in a step of a message that mutates the
\* BrowserState or of DragEnd, which writes and leaves the BrowserState as it
\* was.
C22_WritesOnlyWhenMutatingOrDragEnd ==
  [][/\ EphemeralStepsLeaveStore
     /\ wrote' # "none" => last'.msg \in MutatesBrowserState \cup {"DragEnd"}
     /\ last'.msg = "DragEnd" => state' = state /\ wrote' # "none"]_vars

\* DragStart has been handled while the store was behind the BrowserState, and
\* the store is still behind
C22_Witness ==
  /\ last.msg = "DragStart"
  /\ dragging_tab # None
  /\ wrote = "none"
  /\ stored # None
  /\ LoadState(stored) # state

\* a tab without its is_loading flag
Unflagged(tab) == [id |-> tab.id, title |-> tab.title, url |-> tab.url]

\* BrowserStates a and b have the same tabs but for is_loading, in any order,
\* and the same active_tab_id, next_tab_id, search_engine, proxy_server and
\* downloads
AgreeButOrder(a, b) ==
  /\ Len(a.tabs) = Len(b.tabs)
  /\ {Unflagged(a.tabs[i]) : i \in 1..Len(a.tabs)} =
       {Unflagged(b.tabs[i]) : i \in 1..Len(b.tabs)}
  /\ a.active_tab_id = b.active_tab_id
  /\ a.next_tab_id = b.next_tab_id
  /\ a.search_engine = b.search_engine
  /\ a.proxy_server = b.proxy_server
  /\ a.downloads = b.downloads

\* a and b agree and have their tabs in the same order
Agree(a, b) ==
  /\ AgreeButOrder(a, b)
  /\ \A i \in 1..Len(a.tabs) : Unflagged(a.tabs[i]) = Unflagged(b.tabs[i])

\* C23: with every write accepted, in every state update() has left with no
\* drag in progress, or by a step that wrote, what the store loads to agrees
\* with the BrowserState on the tabs in their order (id, url, title),
\* active_tab_id, next_tab_id, search_engine, proxy_server and downloads; with a
\* drag in progress it agrees on all of that but the order; and a step that does
\* not write changes the order of the tabs only if it is a DragOver.
C23_StoreFollowsState ==
  /\ [](~panicked =>
          LET saved == LoadState(stored) IN
          /\ AgreeButOrder(saved, state)
          /\ (dragging_tab = None \/ wrote = "ok") => Agree(saved, state))
  /\ [][(/\ wrote' = "none"
          /\ ~panicked'
          /\ IdsOf(state'.tabs) # IdsOf(state.tabs)) => last'.msg = "DragOver"]_vars

\* the third tab has been dragged to the front and dropped, which saved the
\* order, and then reloaded, which the store has not seen
C23_Witness ==
  /\ last.msg = "Reload"
  /\ dragging_tab = None
  /\ IdsOf(state.tabs) = <<2, 0, 1>>
  /\ IdsOf(LoadState(stored).tabs) = <<2, 0, 1>>
  /\ state.tabs[1].is_loading
  /\ ~LoadState(stored).tabs[1].is_loading

====
